---------------------------- MODULE Spec2Model ----------------------------
(***************************************************************************)
(* XML invoice converter (docker/xml_invoice_converter_app): upload        *)
(* validation, XML-to-table conversion with the "energy contribution"      *)
(* carry-forward, table building and grouping, and the NiceGUI handlers    *)
(* that drive them.                                                        *)
(*                                                                         *)
(* Python values are tagged records: None, S(text), D(mapping), L(list).   *)
(* An XML element is [tag, text, kids]; leaf elements carry a text or      *)
(* nothing, inner elements carry children (attributes are not modelled).   *)
(***************************************************************************)
EXTENDS Integers, Sequences, FiniteSets, TLC

VARIABLES
    \* ---- convert_xml_to_df and its callees (one conversion at a time) ----
    pc,               \* position inside convert_xml_to_df
    xml_content,      \* argument: the document being converted
    filename,         \* argument: display file name
    use_grouping,     \* argument
    manage_energy,    \* argument
    xml_dict,         \* xmltodict.parse(xml_content)[root_tag]
    invoice_data,     \* extract_invoice_data's result
    lines,            \* extract_lines_data: the normalised line list
    idx,              \* extract_lines_data: number of lines already parsed
    previous_values,  \* extract_lines_data: the carry-forward dictionary
    entry_previous,   \* history: what previous_values held when the parse was entered
    scanned,          \* process_attachments: result of the last line before carry-forward
    result,           \* extract_lines_data: the line_data list built so far
    df,               \* the table returned (NoTable until returned)
    \* ---- the page: widgets and app_state ----
    app_state,        \* xml_content, xml_filename, dataframe, file_hash
    controls,         \* enabled flags of group_sw, energy_sw, run_btn
    switches,         \* values of group_sw and energy_sw
    click_handlers,   \* number of on_run_click handlers registered on run_btn
    clear_visible,    \* clear_btn visibility
    notification,     \* notification box: visible, icon, text
    rows_label,       \* text of rows_label: file name and line count
    upload,           \* the last upload event and what handle_upload returned
    result_view,      \* what result_container shows
    pending,          \* handlers of the current click still to be called
    runs,             \* conversions started for the last click
    process_log,      \* PROCESS records written by log_usage for the last click
    fn_call,          \* a function called on its own: its name and arguments
    fn_ret            \* what that call returned (Raised: it raised)

conv_vars == <<pc, xml_content, filename, use_grouping, manage_energy, xml_dict,
               invoice_data, lines, idx, previous_values, entry_previous, scanned,
               result, df>>
ui_vars == <<app_state, controls, switches, click_handlers, clear_visible,
             notification, rows_label, upload, result_view, pending, runs, process_log>>
fn_vars == <<fn_call, fn_ret>>
vars == <<conv_vars, ui_vars, fn_vars>>

---------------------------------------------------------------------------
(* Bounds of the model *)

\* longest attachment list of a line in the attachment documents
MaxAtt == 2
\* longest line list in the carry-forward documents
MaxDocLines == 3

---------------------------------------------------------------------------
(* Python values *)

None == [k |-> "none"]
S(s) == [k |-> "str", v |-> s]
D(f) == [k |-> "dict", d |-> f]
L(q) == [k |-> "list", l |-> q]

IsDict(v) == v.k = "dict"
IsList(v) == v.k = "list"

\* truth value of a Python object (`if not x`)
Truthy(v) ==
    CASE v.k = "none" -> FALSE
      [] v.k = "str"  -> v.v # ""
      [] v.k = "dict" -> DOMAIN v.d # {}
      [] v.k = "list" -> v.l # <<>>

\* str(x)
Str(v) ==
    CASE v.k = "none" -> S("None")
      [] v.k = "str"  -> v
      [] v.k = "dict" -> S("{...}")
      [] v.k = "list" -> S("[...]")

\* dict.get(key, default)
Get(v, key, default) == IF key \in DOMAIN v.d THEN v.d[key] ELSE default

\* x[key] with a string key: the value, or Raised (KeyError / TypeError)
Raised == [k |-> "raised"]
Subscript(v, key) ==
    IF v.k = "dict" /\ key \in DOMAIN v.d THEN v.d[key] ELSE Raised

---------------------------------------------------------------------------
(* XML documents *)

E(tag, text, kids) == [tag |-> tag, text |-> text, kids |-> kids]
Txt(tag, s) == E(tag, S(s), <<>>)
Empty(tag) == E(tag, None, <<>>)
Node(tag, kids) == E(tag, None, kids)


\* xmltodict.parse: a leaf becomes its text (None when it has none); an inner
\* element becomes a mapping from child tag to the child's value, or to the
\* list of the values, in document order, when the tag is repeated
RECURSIVE ToDict(_)
ToDict(e) ==
    IF e.kids = <<>>
    THEN e.text
    ELSE D([t \in {e.kids[i].tag : i \in DOMAIN e.kids} |->
              LET same == SelectSeq(e.kids, LAMBDA c : c.tag = t)
              IN  IF Len(same) = 1
                  THEN ToDict(same[1])
                  ELSE L([i \in DOMAIN same |-> ToDict(same[i])])])

Max(a, b) == IF a >= b THEN a ELSE b

RECURSIVE MaxOver(_, _, _)
\* max(get_xml_depth(child, level) for child in kids)
get_xml_depth(element, level) ==
    IF element.kids = <<>>
    THEN level
    ELSE MaxOver(element.kids, level + 1, 1)
MaxOver(kids, level, i) ==
    IF i = Len(kids)
    THEN get_xml_depth(kids[i], level)
    ELSE Max(get_xml_depth(kids[i], level), MaxOver(kids, level, i + 1))

\* root.findall('.//{*}tag'): the number of descendants of e (e itself is
\* not one of them) whose local name is tag
RECURSIVE CountTag(_, _)
RECURSIVE CountTagIn(_, _, _)
CountTag(e, tag) == CountTagIn(e.kids, tag, 1)
CountTagIn(kids, tag, i) ==
    IF i > Len(kids)
    THEN 0
    ELSE (IF kids[i].tag = tag THEN 1 ELSE 0)
         + CountTag(kids[i], tag) + CountTagIn(kids, tag, i + 1)

\* Python's `needle in hay` on strings, here sequences of characters
Contains(needle, hay) ==
    \E i \in 0..(Len(hay) - Len(needle)) :
        SubSeq(hay, i + 1, i + Len(needle)) = needle

\* Root element names as ElementTree reports them in root.tag: a name in a
\* namespace reads {uri}local, whatever prefix the document used for it
Fattura == <<"F", "a", "t", "t", "u", "r", "a">>
Elettronica == <<"E", "l", "e", "t", "t", "r", "o", "n", "i", "c", "a">>
Ordinaria == <<"O", "r", "d", "i", "n", "a", "r", "i", "a">>
Semplificata == <<"S", "e", "m", "p", "l", "i", "f", "i", "c", "a", "t", "a">>
NsUri == <<"{", "u", "r", "n", ":", "v", "1", ".", "2", "}">>

\* <FatturaElettronica>
TagPlain == Fattura \o Elettronica
\* <p:FatturaElettronica xmlns:p="urn:v1.2">
TagPrefixed == NsUri \o Fattura \o Elettronica
\* <FatturaOrdinaria>
TagOrdinaria == Fattura \o Ordinaria
\* <p:FatturaOrdinaria xmlns:p="urn:v1.2">
TagPrefixedOrdinaria == NsUri \o Fattura \o Ordinaria
\* <FatturaElettronicaSemplificata>
TagSemplificata == Fattura \o Elettronica \o Semplificata
\* <FatturaElettronic>
TagTruncated == SubSeq(Fattura \o Elettronica, 1, 17)
\* <Elettronica>
TagTail == Elettronica

RootTags == {TagPlain, TagPrefixed, TagOrdinaria, TagPrefixedOrdinaria,
             TagSemplificata, TagTruncated, TagTail}
\* the root tags that name a FatturaElettronica document, listed by hand
GoodRootTags == {TagPlain, TagPrefixed, TagSemplificata}

---------------------------------------------------------------------------
(* The documents of the model: FatturaPA invoices and their defects *)

\* all sequences over set of length 0..n
RECURSIVE SeqsUpTo(_, _)
SeqsUpTo(set, n) ==
    IF n = 0
    THEN {<<>>}
    ELSE LET shorter == SeqsUpTo(set, n - 1)
         IN  shorter \cup {Append(q, x) : q \in shorter, x \in set}

HeaderFull ==
    Node("FatturaElettronicaHeader",
         <<Node("CedentePrestatore",
                <<Node("DatiAnagrafici",
                       <<Node("IdFiscaleIVA",
                              <<Txt("IdPaese", "IT"), Txt("IdCodice", "01234567890")>>),
                         Node("Anagrafica", <<Txt("Denominazione", "ACME")>>)>>)>>)>>)
\* no IdFiscaleIVA, and a Denominazione without text
HeaderPartial ==
    Node("FatturaElettronicaHeader",
         <<Node("CedentePrestatore",
                <<Node("DatiAnagrafici",
                       <<Node("Anagrafica", <<Empty("Denominazione")>>)>>)>>)>>)
\* <FatturaElettronicaHeader/>
HeaderEmpty == Empty("FatturaElettronicaHeader")

DGDFull ==
    Node("DatiGeneraliDocumento",
         <<Txt("Numero", "F1"), Txt("Data", "2024-01-31"),
           Txt("ImportoTotaleDocumento", "100.00")>>)
\* Numero without text, no Data, no ImportoTotaleDocumento
DGDPartial ==
    Node("DatiGeneraliDocumento", <<Empty("Numero"), Txt("TipoDocumento", "TD01")>>)
\* <DatiGeneraliDocumento/>
DGDEmpty == Empty("DatiGeneraliDocumento")

DatiGenerali(dgd) == Node("DatiGenerali", dgd)

Riepilogo ==
    Node("DatiRiepilogo",
         <<Txt("AliquotaIVA", "22.00"), Txt("ImponibileImporto", "100.00")>>)
\* DatiBeniServizi always closes with its DatiRiepilogo
DatiBeniServizi(lineElems) == Node("DatiBeniServizi", lineElems \o <<Riepilogo>>)

Body(kids) == Node("FatturaElettronicaBody", kids)

Att(tipo, rif) ==
    Node("AltriDatiGestionali", <<Txt("TipoDato", tipo), Txt("RiferimentoTesto", rif)>>)
\* an attachment without RiferimentoTesto
AttNoRef(tipo) == Node("AltriDatiGestionali", <<Txt("TipoDato", tipo)>>)
\* an attachment with <RiferimentoTesto/>
AttEmptyRef(tipo) ==
    Node("AltriDatiGestionali", <<Txt("TipoDato", tipo), Empty("RiferimentoTesto")>>)
\* an attachment without TipoDato
AttNoTipo == Node("AltriDatiGestionali", <<Txt("RiferimentoTesto", "X9")>>)
\* <AltriDatiGestionali/>
AttEmpty == Empty("AltriDatiGestionali")
\* <AltriDatiGestionali>note</AltriDatiGestionali>
AttText == Txt("AltriDatiGestionali", "note")

LineFull(n, price, atts) ==
    Node("DettaglioLinee",
         <<Txt("NumeroLinea", n),
           Node("CodiceArticolo", <<Txt("CodiceTipo", "INT"), Txt("CodiceValore", "ART1")>>),
           Txt("Descrizione", "Widget"), Txt("Quantita", "2.00"),
           Txt("UnitaMisura", "PZ"), Txt("PrezzoUnitario", "5.00"),
           Txt("PrezzoTotale", price), Txt("AliquotaIVA", "22.00")>> \o atts)
\* a line with a price only, and that not a number
LineBare(atts) == Node("DettaglioLinee", <<Txt("PrezzoTotale", "abc")>> \o atts)
\* a line whose leaves are present without text
LineBlank ==
    Node("DettaglioLinee",
         <<Empty("NumeroLinea"),
           Node("CodiceArticolo", <<Txt("CodiceTipo", "INT"), Empty("CodiceValore")>>),
           Empty("Descrizione"), Empty("Quantita"), Empty("UnitaMisura"),
           Empty("PrezzoUnitario"), Empty("PrezzoTotale"), Empty("AliquotaIVA")>>)
\* a line with two CodiceArticolo, the first without CodiceValore
LineTwoCodes ==
    Node("DettaglioLinee",
         <<Txt("NumeroLinea", "1"),
           Node("CodiceArticolo", <<Txt("CodiceTipo", "INT")>>),
           Node("CodiceArticolo", <<Txt("CodiceTipo", "EAN"), Txt("CodiceValore", "ART1")>>),
           Txt("PrezzoTotale", "12.50")>>)
\* a line whose CodiceArticolo has no CodiceValore
LineNoCodeValue ==
    Node("DettaglioLinee",
         <<Node("CodiceArticolo", <<Txt("CodiceTipo", "INT")>>), Txt("PrezzoTotale", "5.00")>>)
\* <DettaglioLinee/>
LineEmpty == Empty("DettaglioLinee")
\* <DettaglioLinee>text</DettaglioLinee>
LineText == Txt("DettaglioLinee", "text")

Invoice(rootTag, kids) == [wellformed |-> TRUE, root |-> E(rootTag, None, kids)]
\* bytes the strict parser refuses
Malformed == [wellformed |-> FALSE]

\* a regular invoice with the given lines
Regular(lineElems) ==
    Invoice(TagPrefixed,
            <<HeaderFull, Body(<<DatiGenerali(<<DGDFull>>), DatiBeniServizi(lineElems)>>)>>)

\* --- the documents converted in SpecConvert ---

AttChoices ==
    {Att("DISEGNO", "D100"), Att("DISEGNO", "D200"), Att("COMMESSA", "C1"),
     Att("INTENTO", "I1"), AttNoRef("DISEGNO"), AttEmptyRef("DISEGNO"),
     Att("ALTRO", "X9")}
\* one line, every attachment list up to MaxAtt, and a few odd attachment blocks
AttDocs ==
    {Regular(<<LineFull("1", "12.50", atts)>>) :
        atts \in SeqsUpTo(AttChoices, MaxAtt)
                 \cup {<<AttNoTipo>>, <<AttEmpty>>, <<AttText>>,
                       <<AttEmpty, Att("N01", "N1")>>,
                       <<Att("N01", "N1"), AttNoTipo, AttEmptyRef("INTENTO")>>}}

CarryLines ==
    {LineFull("1", "10.00", <<>>),
     LineFull("2", "5.00", <<Att("DISEGNO", "D100"), Att("COMMESSA", "C1")>>),
     LineFull("3", "12.50",
              <<Att("DISEGNO", "D200"), Att("N01", "N1"), Att("INTENTO", "I1")>>),
     LineBare(<<AttEmptyRef("COMMESSA"), AttNoRef("N01")>>)}
\* every line list of length 1..MaxDocLines over CarryLines
CarryDocs == {Regular(q) : q \in SeqsUpTo(CarryLines, MaxDocLines) \ {<<>>}}

OneLine == <<LineFull("1", "12.50", <<Att("DISEGNO", "D100")>>)>>
BodyFull == Body(<<DatiGenerali(<<DGDFull>>), DatiBeniServizi(OneLine)>>)
\* documents with a missing, empty or repeated section or leaf
StructDocs ==
    {\* no detail line at all
     Regular(<<>>),
     Invoice(TagPlain,
             <<HeaderFull, Body(<<DatiGenerali(<<DGDFull>>), Empty("DatiBeniServizi")>>)>>),
     Invoice(TagPlain, <<HeaderFull, Body(<<DatiGenerali(<<DGDFull>>)>>)>>),
     \* header sections
     Invoice(TagPlain, <<>>),
     Invoice(TagPlain, <<HeaderFull>>),
     Invoice(TagPlain, <<BodyFull>>),
     Invoice(TagPlain, <<HeaderFull, Empty("FatturaElettronicaBody")>>),
     Invoice(TagPlain, <<HeaderFull, Body(<<DatiBeniServizi(OneLine)>>)>>),
     Invoice(TagPlain,
             <<HeaderFull,
               Body(<<DatiGenerali(<<Txt("Causale", "x")>>), DatiBeniServizi(OneLine)>>)>>),
     Invoice(TagPlain,
             <<HeaderFull, Body(<<Empty("DatiGenerali"), DatiBeniServizi(OneLine)>>)>>),
     Invoice(TagSemplificata, <<HeaderFull, BodyFull, BodyFull>>),
     Invoice(TagPlain, <<HeaderFull, HeaderFull, BodyFull>>),
     Invoice(TagPlain,
             <<HeaderFull,
               Body(<<DatiGenerali(<<DGDFull>>), DatiGenerali(<<DGDFull>>),
                      DatiBeniServizi(OneLine)>>)>>),
     \* header leaves
     Invoice(TagPlain,
             <<HeaderPartial, Body(<<DatiGenerali(<<DGDPartial>>), DatiBeniServizi(OneLine)>>)>>),
     Invoice(TagPlain,
             <<HeaderEmpty, Body(<<DatiGenerali(<<DGDEmpty>>), DatiBeniServizi(OneLine)>>)>>),
     \* line leaves
     Regular(<<LineBlank, LineFull("2", "5.00", <<>>)>>),
     Regular(<<LineTwoCodes>>),
     Regular(<<LineNoCodeValue, LineBare(<<>>)>>),
     Regular(<<LineEmpty>>),
     Regular(<<LineFull("1", "5.00", <<>>), LineEmpty>>),
     Regular(<<LineText>>)}


---------------------------------------------------------------------------
(* Field extraction and line processing *)

DEFAULT_VALUE == S("**")
DEFAULT_NUMERIC == S("0")

\* `default or DEFAULT_VALUE`
DefaultOr(default) == IF Truthy(default) THEN default ELSE DEFAULT_VALUE

\* the loop `for key in path: current = current[key]`; Raised on KeyError/TypeError
RECURSIVE WalkPath(_, _, _)
WalkPath(current, path, i) ==
    IF i > Len(path)
    THEN current
    ELSE LET next == Subscript(current, path[i])
         IN  IF next = Raised THEN Raised ELSE WalkPath(next, path, i + 1)

\* default is None when the caller passes none
extract_nested_value(data, path, default) ==
    LET current == WalkPath(data, path, 1)
    IN  IF current = Raised
        THEN DefaultOr(default)
        ELSE IF current # None THEN Str(current) ELSE DefaultOr(default)

\* root is xml_dict[root_tag]; Raised when one of the three subscript lines raises
extract_invoice_data(root) ==
    LET header == Subscript(root, "FatturaElettronicaHeader")
        body == Subscript(root, "FatturaElettronicaBody")
        general_data == WalkPath(body, <<"DatiGenerali", "DatiGeneraliDocumento">>, 1)
    IN  IF header = Raised \/ body = Raised \/ general_data = Raised
        THEN Raised
        ELSE [supplier_vat |->
                  extract_nested_value(header,
                      <<"CedentePrestatore", "DatiAnagrafici", "IdFiscaleIVA", "IdCodice">>,
                      None),
              supplier_name |->
                  extract_nested_value(header,
                      <<"CedentePrestatore", "DatiAnagrafici", "Anagrafica", "Denominazione">>,
                      None),
              doc_number |-> extract_nested_value(general_data, <<"Numero">>, None),
              doc_date |-> extract_nested_value(general_data, <<"Data">>, None),
              doc_amount |->
                  extract_nested_value(general_data, <<"ImportoTotaleDocumento">>,
                                       DEFAULT_NUMERIC)]

CarryFields == {"drawing_number", "order_number", "ddt_number"}
AttachmentFields == CarryFields \cup {"intent"}
\* mapping of process_attachments: TipoDato -> field
mapping ==
    [t \in {"DISEGNO", "COMMESSA", "N01", "INTENTO"} |->
        CASE t = "DISEGNO" -> "drawing_number"
          [] t = "COMMESSA" -> "order_number"
          [] t = "N01" -> "ddt_number"
          [] t = "INTENTO" -> "intent"]

AllDefault(fields) == [f \in fields |-> DEFAULT_VALUE]

\* mutant of ScanFrom: the first attachment of a type wins
RECURSIVE ScanFromFirstWins(_, _, _)
ScanFromFirstWins(attachments, i, res) ==
    IF i > Len(attachments)
    THEN res
    ELSE LET attachment == attachments[i]
             tipo == attachment.d["TipoDato"]
         IN  IF /\ IsDict(attachment)
                /\ "TipoDato" \in DOMAIN attachment.d
                /\ tipo.k = "str"
                /\ tipo.v \in DOMAIN mapping
                /\ res[mapping[tipo.v]] = DEFAULT_VALUE
             THEN ScanFromFirstWins(attachments, i + 1,
                                    [res EXCEPT ![mapping[tipo.v]] =
                                        Get(attachment, "RiferimentoTesto", DEFAULT_VALUE)])
             ELSE ScanFromFirstWins(attachments, i + 1, res)

\* the loop `for attachment in attachments` from its i-th element on
RECURSIVE ScanFrom(_, _, _)
ScanFrom(attachments, i, res) ==
    IF i > Len(attachments)
    THEN res
    ELSE LET attachment == attachments[i]
             tipo == attachment.d["TipoDato"]
         IN  IF /\ IsDict(attachment)
                /\ "TipoDato" \in DOMAIN attachment.d
                /\ tipo.k = "str"
                /\ tipo.v \in DOMAIN mapping
             THEN ScanFrom(attachments, i + 1,
                           [res EXCEPT ![mapping[tipo.v]] =
                               Get(attachment, "RiferimentoTesto", DEFAULT_VALUE)])
             ELSE ScanFrom(attachments, i + 1, res)

\* process_attachments up to its call of apply_energy_management: the four
\* fields as the attachments give them.  A text is iterated character by
\* character, and no character is a mapping.
ScanAttachments(attachments) ==
    IF ~Truthy(attachments)
    THEN AllDefault(AttachmentFields)
    ELSE IF IsDict(attachments)
         THEN ScanFrom(<<attachments>>, 1, AllDefault(AttachmentFields))
         ELSE IF IsList(attachments)
              THEN ScanFrom(attachments.l, 1, AllDefault(AttachmentFields))
              ELSE AllDefault(AttachmentFields)

\* mutant of apply_energy_management: the first value seen is kept as the
\* previous value, later ones do not replace it
apply_energy_keep_first(res, manage, previous) ==
    LET carried ==
            [f \in DOMAIN res |->
                IF manage /\ f \in CarryFields /\ res[f] = DEFAULT_VALUE
                THEN previous[f]
                ELSE res[f]]
    IN  [result |-> carried,
         previous_values |->
            [f \in CarryFields |->
                IF previous[f] = DEFAULT_VALUE THEN carried[f] ELSE previous[f]]]

\* mutant of apply_energy_management: the carry-forward ignores manage_energy
apply_energy_always(res, manage, previous) ==
    LET carried ==
            [f \in DOMAIN res |->
                IF f \in CarryFields /\ res[f] = DEFAULT_VALUE
                THEN previous[f]
                ELSE res[f]]
    IN  [result |-> carried,
         previous_values |->
            [f \in CarryFields |->
                IF carried[f] # DEFAULT_VALUE THEN carried[f] ELSE previous[f]]]

\* mutant of apply_energy_management: previous_values is updated only when
\* manage_energy is on
apply_energy_update_when_on(res, manage, previous) ==
    LET carried ==
            [f \in DOMAIN res |->
                IF manage /\ f \in CarryFields /\ res[f] = DEFAULT_VALUE
                THEN previous[f]
                ELSE res[f]]
    IN  [result |-> carried,
         previous_values |->
            [f \in CarryFields |->
                IF manage /\ carried[f] # DEFAULT_VALUE THEN carried[f] ELSE previous[f]]]

\* returns the result and the updated previous_values (the code updates the
\* dictionary in place)
apply_energy_management(res, manage, previous) ==
    LET carried ==
            [f \in DOMAIN res |->
                IF manage /\ f \in CarryFields /\ res[f] = DEFAULT_VALUE
                THEN previous[f]
                ELSE res[f]]
    IN  [result |-> carried,
         previous_values |->
            [f \in CarryFields |->
                IF carried[f] # DEFAULT_VALUE THEN carried[f] ELSE previous[f]]]

process_attachments(attachments, manage, previous) ==
    apply_energy_management(ScanAttachments(attachments), manage, previous)

\* Raised (AttributeError) when the line is not a mapping; else the line_data
\* and the updated previous_values
parse_line(line, manage, previous) ==
    IF ~IsDict(line)
    THEN Raised
    ELSE LET article_code ==
                 IF IsDict(Get(line, "CodiceArticolo", None))
                 THEN Get(line.d["CodiceArticolo"], "CodiceValore", DEFAULT_VALUE)
                 ELSE DEFAULT_VALUE
             attachments == Get(line, "AltriDatiGestionali", L(<<>>))
             attachment_data == process_attachments(attachments, manage, previous)
         IN  [line_data |->
                 [line_number |-> Str(Get(line, "NumeroLinea", DEFAULT_VALUE)),
                  article_code |-> article_code,
                  description |-> Get(line, "Descrizione", DEFAULT_VALUE),
                  quantity |-> Str(Get(line, "Quantita", DEFAULT_NUMERIC)),
                  unit |-> Get(line, "UnitaMisura", DEFAULT_VALUE),
                  unit_price |-> Str(Get(line, "PrezzoUnitario", DEFAULT_NUMERIC)),
                  total_price |-> Str(Get(line, "PrezzoTotale", DEFAULT_NUMERIC)),
                  vat_code |-> Str(Get(line, "AliquotaIVA", DEFAULT_NUMERIC)),
                  drawing_number |-> attachment_data.result["drawing_number"],
                  order_number |-> attachment_data.result["order_number"],
                  ddt_number |-> attachment_data.result["ddt_number"],
                  intent |-> attachment_data.result["intent"]],
              previous_values |-> attachment_data.previous_values]

\* xml_dict[root_tag]["FatturaElettronicaBody"]["DatiBeniServizi"]["DettaglioLinee"]
\* and the normalisation to a list, L(...); Raised on KeyError/TypeError
LocateLines(root) ==
    LET found == WalkPath(root,
                          <<"FatturaElettronicaBody", "DatiBeniServizi", "DettaglioLinee">>, 1)
    IN  IF found = Raised
        THEN Raised
        ELSE IF IsList(found) THEN found ELSE L(<<found>>)

---------------------------------------------------------------------------
(* Table builder and grouping *)

\* a table: its column names in order and its rows (records over the columns)
Frame(columns, rows) == [columns |-> columns, rows |-> rows]
\* pd.DataFrame()
EmptyFrame == Frame(<<>>, <<>>)
\* no table at all: the conversion has not returned one
NoTable == [k |-> "notable"]
IsEmptyFrame(t) == t.rows = <<>>

\* numbers are counted in thousandths: Num(12500) is 12.5
Num(n) == [k |-> "num", v |-> n]
NaN == [k |-> "nan"]

\* the decimal texts of the model and the numbers they read as (all of them
\* exact in binary floating point, so that their sums and roundings are too)
NumberTexts ==
    [t \in {"0", "0.125", "0.375", "2.00", "5.00", "10.00", "12.50", "100.00"} |->
        CASE t = "0" -> 0
          [] t = "0.125" -> 125
          [] t = "0.375" -> 375
          [] t = "2.00" -> 2000
          [] t = "5.00" -> 5000
          [] t = "10.00" -> 10000
          [] t = "12.50" -> 12500
          [] t = "100.00" -> 100000]

\* pd.to_numeric(text, errors='coerce') on one cell
to_numeric(cell) ==
    IF cell.k = "str" /\ cell.v \in DOMAIN NumberTexts
    THEN Num(NumberTexts[cell.v])
    ELSE NaN
\* mutant of fillna: the cells that did not parse stay NaN
keep_nan(cell) == cell
\* .fillna(0) on one cell
fillna(cell) == IF cell = NaN THEN Num(0) ELSE cell

Columns ==
    <<"T_filein", "T_piva_mitt", "T_ragsoc_mitt", "T_num_doc", "T_data_doc",
      "T_importo_doc", "P_nr_linea", "P_codart", "P_desc_linea", "P_qta", "P_um",
      "P_przunit", "P_prezzo_tot", "P_codiva", "P_nrdisegno", "P_commessa",
      "P_nrddt", "P_intento">>

\* the cells of the row of one line, the numeric ones converted
DataRow(invoice, line, name) ==
    [T_filein |-> S(name),
     T_piva_mitt |-> invoice.supplier_vat,
     T_ragsoc_mitt |-> invoice.supplier_name,
     T_num_doc |-> invoice.doc_number,
     T_data_doc |-> invoice.doc_date,
     T_importo_doc |-> fillna(to_numeric(invoice.doc_amount)),
     P_nr_linea |-> line.line_number,
     P_codart |-> line.article_code,
     P_desc_linea |-> line.description,
     P_qta |-> fillna(to_numeric(line.quantity)),
     P_um |-> line.unit,
     P_przunit |-> fillna(to_numeric(line.unit_price)),
     P_prezzo_tot |-> fillna(to_numeric(line.total_price)),
     P_codiva |-> line.vat_code,
     P_nrdisegno |-> line.drawing_number,
     P_commessa |-> line.order_number,
     P_nrddt |-> line.ddt_number,
     P_intento |-> line.intent]

\* mutant of create_dataframe: the rows come out last line first
create_dataframe_reversed(invoice, lines_data, name) ==
    IF lines_data = <<>>
    THEN EmptyFrame
    ELSE Frame(Columns,
               [i \in DOMAIN lines_data |->
                   DataRow(invoice, lines_data[Len(lines_data) + 1 - i], name)])

create_dataframe(invoice, lines_data, name) ==
    IF lines_data = <<>>
    THEN EmptyFrame
    ELSE Frame(Columns,
               [i \in DOMAIN lines_data |-> DataRow(invoice, lines_data[i], name)])

grouping_fields ==
    <<"T_filein", "T_num_doc", "T_data_doc", "P_nrdisegno", "P_commessa", "P_nrddt",
      "P_intento">>
GroupedColumns == Append(grouping_fields, "P_importo")

\* the key texts of the documents in Python's string order
TextOrder ==
    <<"**", "2024-01-31", "C1", "D100", "D200", "F1", "I1", "N1", "inv1.xml", "inv2.xml">>
Rank(text) == CHOOSE i \in DOMAIN TextOrder : TextOrder[i] = text

KeyOf(row) == [i \in DOMAIN grouping_fields |-> row[grouping_fields[i]]]
\* groupby leaves out the rows with a missing (None) key field
HasKey(row) == \A i \in DOMAIN grouping_fields : row[grouping_fields[i]] # None

\* tuple order of two keys
KeyLess(a, b) ==
    \E i \in DOMAIN a :
        /\ Rank(a[i].v) < Rank(b[i].v)
        /\ \A j \in 1..(i - 1) : a[j] = b[j]

\* the keys in ascending order (groupby sorts its groups)
RECURSIVE SortKeys(_)
SortKeys(keys) ==
    IF keys = {}
    THEN <<>>
    ELSE LET least == CHOOSE a \in keys : \A b \in keys \ {a} : KeyLess(a, b)
         IN  <<least>> \o SortKeys(keys \ {least})

\* sum of P_prezzo_tot over the rows from i on that have the key
RECURSIVE SumPrice(_, _, _)
SumPrice(rows, key, i) ==
    IF i > Len(rows)
    THEN 0
    ELSE (IF HasKey(rows[i]) /\ KeyOf(rows[i]) = key THEN rows[i].P_prezzo_tot.v ELSE 0)
         + SumPrice(rows, key, i + 1)

\* round(2) of an amount in thousandths, half to even
Round2(n) ==
    LET q == n \div 10
        r == n % 10
    IN  IF r < 5 \/ (r = 5 /\ q % 2 = 0) THEN 10 * q ELSE 10 * (q + 1)

\* Raised (KeyError) when the table has no P_prezzo_tot column
apply_grouping(table) ==
    IF \A i \in DOMAIN table.columns : table.columns[i] # "P_prezzo_tot"
    THEN Raised
    ELSE LET keys == {KeyOf(table.rows[i]) : i \in {j \in DOMAIN table.rows : HasKey(table.rows[j])}}
             sorted == SortKeys(keys)
         IN  Frame(GroupedColumns,
                   [g \in DOMAIN sorted |->
                       [T_filein |-> sorted[g][1],
                        T_num_doc |-> sorted[g][2],
                        T_data_doc |-> sorted[g][3],
                        P_nrdisegno |-> sorted[g][4],
                        P_commessa |-> sorted[g][5],
                        P_nrddt |-> sorted[g][6],
                        P_intento |-> sorted[g][7],
                        P_importo |-> Num(Round2(SumPrice(table.rows, sorted[g], 1)))]])

---------------------------------------------------------------------------
(* convert_xml_to_df, step by step *)

\* mutant of NewPreviousValues: the dictionary of the last parse is used again
StalePreviousValues == previous_values

\* previous_values = {...} at the start of extract_lines_data
NewPreviousValues == AllDefault(CarryFields)

ConvInit ==
    /\ pc = "idle"
    /\ xml_content = None
    /\ filename = None
    /\ use_grouping = FALSE
    /\ manage_energy = FALSE
    /\ xml_dict = None
    /\ invoice_data = None
    /\ lines = <<>>
    /\ idx = 0
    /\ previous_values = AllDefault(CarryFields)
    /\ entry_previous = AllDefault(CarryFields)
    /\ scanned = AllDefault(AttachmentFields)
    /\ result = <<>>
    /\ df = NoTable

\* the call convert_xml_to_df(content, name, grouping, energy)
CallConvert(content, name, grouping, energy) ==
    /\ pc' = "start"
    /\ xml_content' = content
    /\ filename' = name
    /\ use_grouping' = grouping
    /\ manage_energy' = energy
    /\ UNCHANGED <<xml_dict, invoice_data, lines, idx, previous_values, entry_previous,
                   scanned, result, df>>

\* the caller is done with what convert_xml_to_df returned or raised: the
\* arguments and locals of the call are gone.  The carry-forward dictionary
\* keeps what the parse left in it: only extract_lines_data decides what the
\* next parse starts from.
LeaveConvert ==
    /\ pc' = "idle"
    /\ xml_content' = None
    /\ filename' = None
    /\ use_grouping' = FALSE
    /\ manage_energy' = FALSE
    /\ xml_dict' = None
    /\ invoice_data' = None
    /\ lines' = <<>>
    /\ idx' = 0
    /\ scanned' = AllDefault(AttachmentFields)
    /\ result' = <<>>
    /\ df' = NoTable
    /\ entry_previous' = AllDefault(CarryFields)
    /\ UNCHANGED previous_values

\* xmltodict.parse, root_tag, extract_invoice_data
ExtractInvoice ==
    /\ pc = "start"
    /\ xml_dict' = ToDict(xml_content.root)
    /\ LET invoice == extract_invoice_data(xml_dict')
       IN  IF invoice = Raised
           THEN pc' = "raised" /\ UNCHANGED invoice_data
           ELSE pc' = "lines" /\ invoice_data' = invoice
    /\ UNCHANGED <<xml_content, filename, use_grouping, manage_energy, lines, idx,
                   previous_values, entry_previous, scanned, result, df>>
    /\ UNCHANGED <<ui_vars, fn_vars>>

\* extract_lines_data up to its loop
ExtractLinesStart ==
    /\ pc = "lines"
    /\ LET located == LocateLines(xml_dict)
       IN  IF located = Raised
           THEN pc' = "raised" /\ UNCHANGED <<lines, previous_values, entry_previous>>
           ELSE /\ pc' = "loop"
                /\ lines' = located.l
                /\ entry_previous' = previous_values
                /\ previous_values' = NewPreviousValues
    /\ idx' = 0
    /\ result' = <<>>
    /\ UNCHANGED <<xml_content, filename, use_grouping, manage_energy, xml_dict,
                   invoice_data, scanned, df>>
    /\ UNCHANGED <<ui_vars, fn_vars>>

\* one iteration of `for line in lines`
ParseLineStep ==
    /\ pc = "loop"
    /\ idx < Len(lines)
    /\ LET line == lines[idx + 1]
           parsed == parse_line(line, manage_energy, previous_values)
       IN  IF parsed = Raised
           THEN pc' = "raised" /\ UNCHANGED <<idx, previous_values, scanned, result>>
           ELSE /\ pc' = "loop"
                /\ idx' = idx + 1
                /\ scanned' = ScanAttachments(Get(line, "AltriDatiGestionali", L(<<>>)))
                /\ previous_values' = parsed.previous_values
                /\ result' = Append(result, parsed.line_data)
    /\ UNCHANGED <<xml_content, filename, use_grouping, manage_energy, xml_dict,
                   invoice_data, lines, entry_previous, df>>
    /\ UNCHANGED <<ui_vars, fn_vars>>

\* the loop is over: create_dataframe, the optional grouping, return df
BuildTable ==
    /\ pc = "loop"
    /\ idx = Len(lines)
    /\ LET table == create_dataframe(invoice_data, result, filename)
       IN  df' = IF use_grouping /\ ~IsEmptyFrame(table) THEN apply_grouping(table) ELSE table
    /\ pc' = "returned"
    /\ UNCHANGED <<xml_content, filename, use_grouping, manage_energy, xml_dict,
                   invoice_data, lines, idx, previous_values, entry_previous, scanned,
                   result>>
    /\ UNCHANGED <<ui_vars, fn_vars>>

\* the steps of a conversion; none of them touches the page
ConvertSteps == ExtractInvoice \/ ExtractLinesStart \/ ParseLineStep \/ BuildTable

---------------------------------------------------------------------------
(* Upload validation *)

\* Both limits are read from the environment when the module is loaded
\* (os.getenv, defaults 50 and 10000); the model runs a deployment that sets
\* them small enough to build documents on both sides of each limit.
MAX_XML_DEPTH == 7
MAX_LINES_PER_INVOICE == 4
\* on_run_click handlers registered on run_btn at most
MaxHandlers == 2

\* os.path.basename(str(raw_name)) of an uploaded name [dir, base]
Basename(raw_name) == S(raw_name.base)
\* hashlib.sha256(content).hexdigest(): one digest per content
Sha256(content) == [sha256 |-> content]

\* mutant of RootTagOk: the tag must be exactly FatturaElettronica
RootTagExact(tag) == tag = Fattura \o Elettronica
\* 'FatturaElettronica' in root.tag
RootTagOk(tag) == Contains(Fattura \o Elettronica, tag)
\* mutant of TooDeep: the limit itself is already too deep
TooDeepAtLimit(depth) == depth >= MAX_XML_DEPTH
\* depth > MAX_XML_DEPTH
TooDeep(depth) == depth > MAX_XML_DEPTH
\* mutant of TooManyLines: the limit itself is already too many
TooManyLinesAtLimit(num_items) == num_items >= MAX_LINES_PER_INVOICE
\* num_items > MAX_LINES_PER_INVOICE
TooManyLines(num_items) == num_items > MAX_LINES_PER_INVOICE

\* return False, None, safe_filename, rows with the error shown in the box
Rejected(name, rows, cause) ==
    [success |-> FALSE, content |-> None, name |-> name, rows |-> rows,
     cause |-> cause, warned |-> FALSE]

\* handle_upload(e, ...): what it returns (success, content, name, rows), the
\* branch taken (cause) and whether the zero-line warning was shown on the way
handle_upload(e) ==
    LET safe_filename == Basename(e.name)
        byte_content == e.content
        root == byte_content.root
        num_items == CountTag(root, "DettaglioLinee")
        depth == get_xml_depth(root, 1)
    IN  IF byte_content = None
        THEN Rejected(safe_filename, 0, "no_buffer")
        ELSE IF ~byte_content.wellformed
        THEN Rejected(safe_filename, 0, "technical_error")
        ELSE IF ~RootTagOk(root.tag)
        THEN Rejected(safe_filename, num_items, "invalid_structure")
        ELSE IF TooDeep(depth)
        THEN Rejected(safe_filename, num_items, "too_deep")
        ELSE IF TooManyLines(num_items)
        THEN Rejected(safe_filename, num_items, "too_many_lines")
        ELSE [success |-> TRUE, content |-> byte_content, name |-> safe_filename,
              rows |-> num_items, cause |-> "ok", warned |-> num_items = 0]

\* the notification box after handle_upload: every failure shows the error
\* icon and its message; a success shows the check mark and the "validated
\* successfully" message, which replace the zero-line warning set just before
Notify(outcome) ==
    IF ~outcome.success
    THEN [visible |-> TRUE, icon |-> "error", text |-> outcome.cause]
    ELSE [visible |-> TRUE, icon |-> "check_circle", text |-> "validated"]

---------------------------------------------------------------------------
(* The uploads of the model *)

\* a chain of n nested elements
RECURSIVE Pad(_)
Pad(n) == IF n = 1 THEN Empty("Allegati") ELSE Node("Allegati", <<Pad(n - 1)>>)

PlainLine(i) == LineFull("1", "5.00", <<>>)
\* an invoice with n plain lines; with depth > 0 a chain of elements under
\* the root makes that the depth of the document
Shaped(rootTag, n, depth) ==
    Invoice(rootTag,
            <<HeaderFull,
              Body(<<DatiGenerali(<<DGDFull>>), DatiBeniServizi([i \in 1..n |-> PlainLine(i)])>>)>>
            \o (IF depth = 0 THEN <<>> ELSE <<Pad(depth - 1)>>))

UploadDocs ==
    {Malformed}
    \cup {Shaped(tag, 1, 0) : tag \in RootTags \ {TagPlain, TagPrefixed}}
    \cup {Shaped(TagPrefixed, 1, d) :
             d \in {MAX_XML_DEPTH, MAX_XML_DEPTH + 1, MAX_XML_DEPTH + 2}}
    \cup {Shaped(TagPlain, n, 0) :
             n \in {0, MAX_LINES_PER_INVOICE, MAX_LINES_PER_INVOICE + 1,
                    MAX_LINES_PER_INVOICE + 2}}
    \cup {Shaped(TagOrdinaria, 1, MAX_XML_DEPTH + 1),
          Shaped(TagOrdinaria, MAX_LINES_PER_INVOICE + 1, 0),
          Shaped(TagPlain, MAX_LINES_PER_INVOICE + 1, MAX_XML_DEPTH + 1),
          Regular(<<LineFull("1", "10.00", <<Att("DISEGNO", "D100")>>),
                    LineFull("2", "5.00", <<>>)>>)}

UploadNames == {[dir |-> "tmp/", base |-> "inv1.xml"]}
\* an upload event: e.name and e.content (None: the event carries no buffer)
UploadEvents == {[name |-> n, content |-> c] : n \in UploadNames, c \in UploadDocs \cup {None}}

---------------------------------------------------------------------------
(* The page: widgets, app_state and the handlers *)

UIInit ==
    /\ app_state = [xml_content |-> None, xml_filename |-> None,
                    dataframe |-> None, file_hash |-> None]
    /\ controls = [group_sw |-> FALSE, energy_sw |-> FALSE, run_btn |-> FALSE]
    /\ switches = [group_sw |-> FALSE, energy_sw |-> FALSE]
    /\ click_handlers = 0
    /\ clear_visible = FALSE
    /\ notification = [visible |-> FALSE, icon |-> "check_circle", text |-> ""]
    /\ rows_label = [name |-> None, rows |-> 0]
    /\ upload = None
    /\ result_view = "empty"
    /\ pending = 0
    /\ runs = 0
    /\ process_log = 0

\* no handler is running
Quiet == pc = "idle" /\ pending = 0

\* mutant of AllControls: the controls are enabled whatever the outcome
AllControlsOn(on) == [group_sw |-> TRUE, energy_sw |-> TRUE, run_btn |-> TRUE]
AllControls(on) == [group_sw |-> on, energy_sw |-> on, run_btn |-> on]

\* process_file(e), the on_upload handler.  Its only await is the read of the
\* buffer inside handle_upload, before anything shared is touched; from there
\* to its end it runs without a break.
ProcessFile(e) ==
    /\ Quiet
    /\ \E outcome \in {handle_upload(e)} :
           /\ upload' = [event |-> e, returned |-> outcome]
           /\ notification' = Notify(outcome)
           /\ clear_visible' = TRUE
           /\ IF outcome.success
              THEN /\ click_handlers < MaxHandlers
                   /\ rows_label' = [name |-> outcome.name, rows |-> outcome.rows]
                   /\ app_state' = [app_state EXCEPT !.xml_content = outcome.content,
                                                     !.xml_filename = outcome.name,
                                                     !.file_hash = Sha256(outcome.content)]
                   /\ controls' = AllControls(TRUE)
                   /\ click_handlers' = click_handlers + 1
              ELSE /\ controls' = AllControls(FALSE)
                   /\ UNCHANGED <<rows_label, app_state, click_handlers>>
    /\ UNCHANGED <<switches, result_view, pending, runs, process_log>>
    /\ UNCHANGED <<conv_vars, fn_vars>>

\* clear_upload(), the handler of the reset button
ClearUpload ==
    /\ Quiet
    /\ clear_visible
    /\ app_state' = [xml_content |-> None, xml_filename |-> None,
                     dataframe |-> None, file_hash |-> None]
    /\ rows_label' = [name |-> None, rows |-> 0]
    /\ clear_visible' = FALSE
    /\ notification' = [notification EXCEPT !.visible = FALSE]
    /\ controls' = AllControls(FALSE)
    /\ result_view' = "empty"
    /\ UNCHANGED <<switches, click_handlers, upload, pending, runs, process_log>>
    /\ UNCHANGED <<conv_vars, fn_vars>>

\* the user flips an enabled switch
ToggleSwitch(sw) ==
    /\ Quiet
    /\ controls[sw]
    /\ switches' = [switches EXCEPT ![sw] = ~@]
    /\ UNCHANGED <<app_state, controls, click_handlers, clear_visible, notification,
                   rows_label, upload, result_view, pending, runs, process_log>>
    /\ UNCHANGED <<conv_vars, fn_vars>>

\* the user clicks the enabled RUN button: every handler registered with
\* run_btn.on('click', ...) will be called, one after the other
ClickRun ==
    /\ Quiet
    /\ controls.run_btn
    /\ pending' = click_handlers
    /\ runs' = 0
    /\ process_log' = 0
    /\ UNCHANGED <<app_state, controls, switches, click_handlers, clear_visible,
                   notification, rows_label, upload, result_view>>
    /\ UNCHANGED <<conv_vars, fn_vars>>

\* on_run_click() up to its call of convert_xml_to_df
RunStart ==
    /\ pc = "idle"
    /\ pending > 0
    /\ IF app_state.xml_content = None
       THEN /\ result_view' = "empty"
            /\ pending' = pending - 1
            /\ UNCHANGED <<runs, conv_vars>>
       ELSE /\ result_view' = "spinner"
            /\ runs' = runs + 1
            /\ CallConvert(app_state.xml_content, app_state.xml_filename.v,
                           switches.group_sw, switches.energy_sw)
            /\ UNCHANGED pending
    /\ UNCHANGED <<app_state, controls, switches, click_handlers, clear_visible,
                   notification, rows_label, upload, process_log>>
    /\ UNCHANGED fn_vars

\* on_run_click() from the return of convert_xml_to_df, or from its exception
RunFinish ==
    /\ pc \in {"returned", "raised"}
    /\ pending > 0
    /\ IF pc = "raised"
       THEN /\ result_view' = "error"
            /\ UNCHANGED <<app_state, process_log>>
       ELSE /\ app_state' = [app_state EXCEPT !.dataframe = df]
            /\ IF IsEmptyFrame(df)
               THEN result_view' = "no_data" /\ UNCHANGED process_log
               ELSE result_view' = "table" /\ process_log' = process_log + 1
    /\ pending' = pending - 1
    /\ LeaveConvert
    /\ UNCHANGED <<controls, switches, click_handlers, clear_visible, notification,
                   rows_label, upload, runs>>
    /\ UNCHANGED fn_vars

Next ==
    \/ \E e \in UploadEvents : ProcessFile(e)
    \/ ClearUpload
    \/ \E sw \in {"group_sw", "energy_sw"} : ToggleSwitch(sw)
    \/ ClickRun
    \/ RunStart
    \/ ConvertSteps
    \/ RunFinish

\* no function has been called on its own yet
FnInit == fn_call = None /\ fn_ret = None

Init == ConvInit /\ UIInit /\ FnInit

Spec == Init /\ [][Next]_vars

---------------------------------------------------------------------------
(* SpecConvert: conversions of validated documents, one after the other, *)
(* each with any flags                                                   *)

\* the documents of the three families that upload validation lets through
ConvDocs ==
    {doc \in AttDocs \cup CarryDocs \cup StructDocs :
        handle_upload([name |-> [dir |-> "", base |-> "inv1.xml"], content |-> doc]).success}
ConvFileNames == {"inv1.xml", "inv2.xml"}

ConvertStart ==
    /\ pc = "idle"
    /\ \E doc \in ConvDocs, name \in ConvFileNames, grouping \in BOOLEAN, energy \in BOOLEAN :
           CallConvert(doc, name, grouping, energy)
    /\ UNCHANGED <<ui_vars, fn_vars>>

\* the caller takes the table or the exception
ConvertEnd ==
    /\ pc \in {"returned", "raised"}
    /\ LeaveConvert
    /\ UNCHANGED <<ui_vars, fn_vars>>

NextConvert == ConvertStart \/ ConvertSteps \/ ConvertEnd

SpecConvert == Init /\ [][NextConvert]_vars

---------------------------------------------------------------------------
(* SpecCalls: the functions of the conversion called on their own, each *)
(* with arguments drawn from a bounded set                              *)

\* nesting of the mappings handed to extract_nested_value
MaxNest == 2

NestedLeaves == {None, S("v"), S(""), L(<<S("v")>>)}
\* mappings over the keys a and b, nested up to n levels
RECURSIVE NestedData(_)
NestedData(n) ==
    IF n = 0
    THEN NestedLeaves
    ELSE LET inner == NestedData(n - 1)
         IN  inner \cup {D([a |-> x]) : x \in inner}
                   \cup {D([a |-> S("v"), b |-> x]) : x \in inner}
NestedPaths == SeqsUpTo({"a", "b"}, MaxNest)
\* None: the caller passes no default
NestedDefaults == {None, S("0"), S("n/a"), S("")}

CallExtractNestedValue ==
    /\ fn_call = None
    /\ \E data \in NestedData(MaxNest), path \in NestedPaths, default \in NestedDefaults :
           /\ fn_call' = [fn |-> "extract_nested_value", data |-> data, path |-> path,
                          default |-> default]
           /\ fn_ret' = extract_nested_value(data, path, default)
    /\ UNCHANGED <<conv_vars, ui_vars>>

\* the caller has what the function returned
CallDone ==
    /\ fn_call # None
    /\ fn_call' = None
    /\ fn_ret' = None
    /\ UNCHANGED <<conv_vars, ui_vars>>

\* rows of the tables built on their own
MaxRows == 3

CallInvoices ==
    {[supplier_vat |-> S("01234567890"), supplier_name |-> S("ACME"),
      doc_number |-> S("F1"), doc_date |-> S("2024-01-31"), doc_amount |-> S("100.00")],
     [supplier_vat |-> S("**"), supplier_name |-> S("**"),
      doc_number |-> S("**"), doc_date |-> S("**"), doc_amount |-> S("abc")]}
\* a line_data as parse_line returns it
LineData(price, drawing) ==
    [line_number |-> S("1"), article_code |-> S("ART1"), description |-> S("Widget"),
     quantity |-> IF price = "abc" THEN S("None") ELSE S("2.00"),
     unit |-> S("PZ"),
     unit_price |-> IF price = "abc" THEN S("**") ELSE S("5.00"),
     total_price |-> S(price), vat_code |-> S("22.00"),
     drawing_number |-> drawing, order_number |-> S("C1"), ddt_number |-> S("**"),
     intent |-> S("**")]
\* a drawing_number of None is what an empty <RiferimentoTesto/> leaves
CallLines ==
    {LineData(price, drawing) :
        price \in {"12.50", "0.125", "0.375", "abc"},
        drawing \in {S("**"), S("D100"), None}}

CallCreateDataframe ==
    /\ fn_call = None
    /\ \E invoice \in CallInvoices, lines_data \in SeqsUpTo(CallLines, MaxRows),
          name \in ConvFileNames :
           /\ fn_call' = [fn |-> "create_dataframe", invoice_data |-> invoice,
                          lines_data |-> lines_data, filename |-> name]
           /\ fn_ret' = create_dataframe(invoice, lines_data, name)
    /\ UNCHANGED <<conv_vars, ui_vars>>

\* the tables create_dataframe builds from those arguments, the empty one left out
BuiltTables ==
    {create_dataframe(invoice, lines_data, "inv1.xml") :
        invoice \in CallInvoices, lines_data \in SeqsUpTo(CallLines, MaxRows) \ {<<>>}}
\* apply_grouping is handed a table just built, or one it has grouped already
GroupingInputs == BuiltTables \cup {apply_grouping(table) : table \in BuiltTables}

CallApplyGrouping ==
    /\ fn_call = None
    /\ \E table \in GroupingInputs :
           /\ fn_call' = [fn |-> "apply_grouping", df |-> table]
           /\ fn_ret' = apply_grouping(table)
    /\ UNCHANGED <<conv_vars, ui_vars>>

NextCalls ==
    \/ CallExtractNestedValue
    \/ CallCreateDataframe
    \/ CallApplyGrouping
    \/ CallDone

SpecCalls == Init /\ [][NextCalls]_vars

---------------------------------------------------------------------------
(* What the XML document itself says, read off the element tree *)

\* the children of e with the tag, in document order
Kids(e, tag) == SelectSeq(e.kids, LAMBDA c : c.tag = tag)
SetMax(set) == CHOOSE x \in set : \A y \in set : y <= x

\* the DettaglioLinee elements of a document with one body and one DatiBeniServizi
DocLines(doc) ==
    Kids(Kids(Kids(doc.root, "FatturaElettronicaBody")[1], "DatiBeniServizi")[1],
         "DettaglioLinee")
\* the AltriDatiGestionali elements of a line
LineAtts(lineElem) == Kids(lineElem, "AltriDatiGestionali")
\* the positions of the attachments of the line whose TipoDato is tipo
AttsCarrying(lineElem, tipo) ==
    {i \in DOMAIN LineAtts(lineElem) :
        \E j \in DOMAIN LineAtts(lineElem)[i].kids :
            /\ LineAtts(lineElem)[i].kids[j].tag = "TipoDato"
            /\ LineAtts(lineElem)[i].kids[j].text = S(tipo)}
\* the RiferimentoTesto of an attachment; the sentinel when it has none
RefOf(attElem) ==
    IF Kids(attElem, "RiferimentoTesto") = <<>>
    THEN S("**")
    ELSE Kids(attElem, "RiferimentoTesto")[1].text
\* what the last attachment of that TipoDato says; the sentinel without one
LastValue(lineElem, tipo) ==
    IF AttsCarrying(lineElem, tipo) = {}
    THEN S("**")
    ELSE RefOf(LineAtts(lineElem)[SetMax(AttsCarrying(lineElem, tipo))])

Recognized ==
    {<<"DISEGNO", "drawing_number">>, <<"COMMESSA", "order_number">>,
     <<"N01", "ddt_number">>, <<"INTENTO", "intent">>}
Carried == {p \in Recognized : p[2] # "intent"}

InLoop == pc \in {"loop", "returned"}

---------------------------------------------------------------------------
(* Claims about line processing, checked under SpecConvert *)

\* what line i of the document being converted says for the TipoDato
Own(i, tipo) == LastValue(DocLines(xml_content)[i], tipo)
\* the nearest line before i whose own attachments gave a value for the
\* TipoDato; 0 when there is none
NearestBefore(i, tipo) ==
    LET earlier == {j \in 1..(i - 1) : Own(j, tipo) # S("**")}
    IN  IF earlier = {} THEN 0 ELSE SetMax(earlier)

\* C1: with manage_energy set, a parsed line that has no attachment for
\* drawing_number, order_number or ddt_number carries in that field the value
\* of the nearest preceding line whose attachments gave one, or the sentinel
\* "**" when no preceding line did.
C1_CarryForward ==
    (InLoop /\ manage_energy) =>
        \A i \in 1..idx : \A p \in Carried :
            AttsCarrying(DocLines(xml_content)[i], p[1]) = {} =>
                result[i][p[2]] =
                    IF NearestBefore(i, p[1]) = 0
                    THEN S("**")
                    ELSE Own(NearestBefore(i, p[1]), p[1])

\* the scenario D100, (no DISEGNO), D200 gives D100, D100, D200; and a line
\* after D100 and D200 takes the nearer D200
C1_Witness ==
    /\ pc = "returned"
    /\ manage_energy
    /\ Len(result) = 3
    /\ AttsCarrying(DocLines(xml_content)[3], "DISEGNO") = {}
    /\ Own(1, "DISEGNO") = S("D100")
    /\ Own(2, "DISEGNO") = S("D200")
    /\ result[3].drawing_number = S("D200")

\* the lines a parse of the document gives when it starts from an all-sentinel
\* carry-forward state of its own
RECURSIVE LinesFrom(_, _, _, _)
LinesFrom(lineValues, energy, previous, i) ==
    IF i > Len(lineValues)
    THEN <<>>
    ELSE LET parsed == parse_line(lineValues[i], energy, previous)
         IN  <<parsed.line_data>>
             \o LinesFrom(lineValues, energy, parsed.previous_values, i + 1)
OwnLines(doc, energy, n) ==
    LinesFrom(SubSeq(LocateLines(ToDict(doc.root)).l, 1, n), energy,
              [f \in CarryFields |-> S("**")], 1)

\* C2: whatever conversions came before, a parse starts from an all-sentinel
\* carry-forward state: the lines produced are those the document and its
\* manage_energy flag alone determine, and the first line carries exactly what
\* its own attachments say.
C2_FreshState ==
    InLoop =>
        /\ idx = 0 => \A f \in CarryFields : previous_values[f] = S("**")
        /\ result = OwnLines(xml_content, manage_energy, idx)
        /\ idx >= 1 => \A p \in Carried : result[1][p[2]] = Own(1, p[1])

\* a parse entered with values left by an earlier document, whose first line
\* has no attachment and stays all-sentinel
C2_Witness ==
    /\ InLoop
    /\ manage_energy
    /\ idx >= 1
    /\ entry_previous["drawing_number"] = S("D200")
    /\ entry_previous["order_number"] = S("C1")
    /\ LineAtts(DocLines(xml_content)[1]) = <<>>
    /\ \A f \in CarryFields : result[1][f] = S("**")

\* C3: carry-forward changes a field of a line only if the field is one of
\* drawing_number, order_number, ddt_number, attachment scanning left it at the
\* sentinel and manage_energy is set; intent and every non-sentinel value stay
\* as scanned, and without manage_energy all four fields stay as scanned.
C3_CarryFrame ==
    (InLoop /\ idx >= 1) =>
        /\ \A f \in AttachmentFields :
               result[idx][f] # scanned[f] =>
                   /\ f \in {"drawing_number", "order_number", "ddt_number"}
                   /\ scanned[f] = S("**")
                   /\ manage_energy
        /\ result[idx]["intent"] = scanned["intent"]
        /\ \A f \in AttachmentFields : scanned[f] # S("**") => result[idx][f] = scanned[f]
        /\ ~manage_energy => \A f \in AttachmentFields : result[idx][f] = scanned[f]

\* a line that got its drawing number carried while its scanned order number
\* and its sentinel intent stayed as they were
C3_Witness ==
    /\ InLoop
    /\ idx >= 2
    /\ manage_energy
    /\ scanned["drawing_number"] = S("**")
    /\ result[idx]["drawing_number"] = S("D200")
    /\ scanned["order_number"] = None
    /\ result[idx]["order_number"] = None
    /\ scanned["intent"] = S("**")
    /\ result[idx - 1]["intent"] = S("I1")

\* C4: after attachment scanning each of the four mapped fields holds the
\* RiferimentoTesto of the last attachment of the line, in document order,
\* with its TipoDato (the sentinel if that attachment has no RiferimentoTesto),
\* and the sentinel when no attachment has that TipoDato; other attachments
\* change nothing.
C4_LastWins ==
    (InLoop /\ idx >= 1) =>
        /\ DOMAIN scanned = {"drawing_number", "order_number", "ddt_number", "intent"}
        /\ \A p \in Recognized :
               scanned[p[2]] = LastValue(DocLines(xml_content)[idx], p[1])

\* two DISEGNO attachments, D100 then D200: the second one wins
C4_Witness ==
    /\ InLoop
    /\ idx = 1
    /\ LineAtts(DocLines(xml_content)[1]) = <<Att("DISEGNO", "D100"), Att("DISEGNO", "D200")>>
    /\ scanned["drawing_number"] = S("D200")

---------------------------------------------------------------------------
(* Claims about upload validation, checked under Spec *)

\* the nesting depth of an element, the element itself at depth 1
RECURSIVE NestingDepth(_)
NestingDepth(e) ==
    IF e.kids = <<>>
    THEN 1
    ELSE 1 + SetMax({NestingDepth(e.kids[i]) : i \in DOMAIN e.kids})

\* the most recent upload event carried bytes that parse
ParsedUpload ==
    /\ upload # None
    /\ upload.event.content # None
    /\ upload.event.content.wellformed
UploadedRoot == upload.event.content.root
UploadedDepth == NestingDepth(UploadedRoot)
UploadedLines == CountTag(UploadedRoot, "DettaglioLinee")
Accepted ==
    /\ upload.returned.success
    /\ upload.returned.content = upload.event.content
RejectedAs(cause) ==
    /\ ~upload.returned.success
    /\ upload.returned.cause = cause
    /\ upload.returned.content = None

\* C5 as stated: a document of depth exactly MAX_XML_DEPTH that is valid
\* otherwise is accepted, and every document of depth MAX_XML_DEPTH + 1 or
\* more is rejected with the too-deep error and no content.
C5_AsStated ==
    ParsedUpload =>
        /\ (/\ UploadedDepth = MAX_XML_DEPTH
            /\ UploadedRoot.tag \in GoodRootTags
            /\ UploadedLines <= MAX_LINES_PER_INVOICE) => Accepted
        /\ UploadedDepth >= MAX_XML_DEPTH + 1 => RejectedAs("too_deep")

\* C5, amended: a document of depth exactly MAX_XML_DEPTH that is valid
\* otherwise is accepted; every document whose root tag contains
\* FatturaElettronica and whose depth is MAX_XML_DEPTH + 1 or more is
\* rejected with the too-deep error; every rejected upload returns no content.
C5_DepthBoundary ==
    /\ ParsedUpload =>
        /\ (/\ UploadedDepth = MAX_XML_DEPTH
            /\ UploadedRoot.tag \in GoodRootTags
            /\ UploadedLines <= MAX_LINES_PER_INVOICE) => Accepted
        /\ (/\ UploadedDepth >= MAX_XML_DEPTH + 1
            /\ UploadedRoot.tag \in GoodRootTags) => RejectedAs("too_deep")
    /\ (upload # None /\ ~upload.returned.success) => upload.returned.content = None

\* a document one level deeper than the limit has been rejected as too deep
C5_Witness ==
    /\ ParsedUpload
    /\ UploadedDepth = MAX_XML_DEPTH + 1
    /\ UploadedRoot.tag \in GoodRootTags
    /\ RejectedAs("too_deep")

\* C6 as stated: a document with exactly MAX_LINES_PER_INVOICE DettaglioLinee
\* elements that is valid otherwise is accepted, and every document with
\* MAX_LINES_PER_INVOICE + 1 or more is rejected with the too-many-lines
\* error and no content.
C6_AsStated ==
    ParsedUpload =>
        /\ (/\ UploadedLines = MAX_LINES_PER_INVOICE
            /\ UploadedRoot.tag \in GoodRootTags
            /\ UploadedDepth <= MAX_XML_DEPTH) => Accepted
        /\ UploadedLines >= MAX_LINES_PER_INVOICE + 1 => RejectedAs("too_many_lines")

\* C6, amended: a document with exactly MAX_LINES_PER_INVOICE DettaglioLinee
\* elements that is valid otherwise is accepted; every document whose root
\* tag contains FatturaElettronica, whose depth is at most MAX_XML_DEPTH and
\* which has MAX_LINES_PER_INVOICE + 1 or more DettaglioLinee elements is
\* rejected with the too-many-lines error and no content.
C6_LineBoundary ==
    ParsedUpload =>
        /\ (/\ UploadedLines = MAX_LINES_PER_INVOICE
            /\ UploadedRoot.tag \in GoodRootTags
            /\ UploadedDepth <= MAX_XML_DEPTH) => Accepted
        /\ (/\ UploadedLines >= MAX_LINES_PER_INVOICE + 1
            /\ UploadedRoot.tag \in GoodRootTags
            /\ UploadedDepth <= MAX_XML_DEPTH) => RejectedAs("too_many_lines")

\* a document with exactly the limit of lines has been accepted
C6_Witness ==
    /\ ParsedUpload
    /\ UploadedLines = MAX_LINES_PER_INVOICE
    /\ Accepted

\* C7: an upload is rejected with the invalid-structure error exactly when
\* the root tag of the document does not contain "FatturaElettronica"; a
\* namespace-prefixed FatturaElettronica is not rejected on this ground.
C7_RootTag ==
    ParsedUpload =>
        /\ UploadedRoot.tag \notin GoodRootTags => RejectedAs("invalid_structure")
        /\ UploadedRoot.tag \in GoodRootTags =>
               upload.returned.cause # "invalid_structure"

\* a namespace-prefixed FatturaElettronica has passed validation
C7_Witness ==
    /\ ParsedUpload
    /\ UploadedRoot.tag = TagPrefixed
    /\ Accepted

\* the document under conversion has no DettaglioLinee element
ZeroLinesConverted ==
    /\ pc \in {"returned", "raised"}
    /\ CountTag(xml_content.root, "DettaglioLinee") = 0

\* C8 as stated: a document without detail lines that is valid otherwise
\* passes upload validation with the warning, and its conversion returns,
\* without raising, an empty table.
C8_ZeroLines ==
    /\ (/\ ParsedUpload
        /\ UploadedLines = 0
        /\ UploadedRoot.tag \in GoodRootTags
        /\ UploadedDepth <= MAX_XML_DEPTH) => (Accepted /\ upload.returned.warned)
    /\ ZeroLinesConverted => (pc = "returned" /\ IsEmptyFrame(df))

---------------------------------------------------------------------------
(* Claims about missing leaves and sections, checked under SpecConvert *)

\* the text of the leaf reached from e by the path of tags, first child of
\* each tag; None when a tag of the path is missing or the leaf has no text
RECURSIVE LeafAt(_, _, _)
LeafAt(e, path, i) ==
    IF i > Len(path)
    THEN e.text
    ELSE IF Kids(e, path[i]) = <<>>
         THEN None
         ELSE LeafAt(Kids(e, path[i])[1], path, i + 1)

\* leaf path in the document, field of invoice_data, sentinel
HeaderLeaves ==
    {<<<<"FatturaElettronicaHeader", "CedentePrestatore", "DatiAnagrafici",
         "IdFiscaleIVA", "IdCodice">>, "supplier_vat", "**">>,
     <<<<"FatturaElettronicaHeader", "CedentePrestatore", "DatiAnagrafici",
         "Anagrafica", "Denominazione">>, "supplier_name", "**">>,
     <<<<"FatturaElettronicaBody", "DatiGenerali", "DatiGeneraliDocumento", "Numero">>,
       "doc_number", "**">>,
     <<<<"FatturaElettronicaBody", "DatiGenerali", "DatiGeneraliDocumento", "Data">>,
       "doc_date", "**">>,
     <<<<"FatturaElettronicaBody", "DatiGenerali", "DatiGeneraliDocumento",
         "ImportoTotaleDocumento">>, "doc_amount", "0">>}
\* leaf path in a DettaglioLinee, field of line_data, sentinel
LineLeaves ==
    {<<<<"NumeroLinea">>, "line_number", "**">>,
     <<<<"CodiceArticolo", "CodiceValore">>, "article_code", "**">>,
     <<<<"Descrizione">>, "description", "**">>,
     <<<<"Quantita">>, "quantity", "0">>,
     <<<<"UnitaMisura">>, "unit", "**">>,
     <<<<"PrezzoUnitario">>, "unit_price", "0">>,
     <<<<"PrezzoTotale">>, "total_price", "0">>,
     <<<<"AliquotaIVA">>, "vat_code", "0">>}

\* C9 as stated: once the header sections and the lines are found, the
\* conversion never raises; every header leaf and every line leaf that is
\* missing or has no text resolves to "**" ("0" for the numeric fields); and
\* the table returned without grouping has a row for every DettaglioLinee.
C9_LeafNeverFatal ==
    /\ pc = "raised" => (invoice_data = None \/ lines = <<>>)
    /\ invoice_data # None =>
           \A h \in HeaderLeaves :
               LeafAt(xml_content.root, h[1], 1) = None => invoice_data[h[2]] = S(h[3])
    /\ \A i \in 1..Len(result) : \A l \in LineLeaves :
           LeafAt(DocLines(xml_content)[i], l[1], 1) = None => result[i][l[2]] = S(l[3])
    /\ (pc = "returned" /\ ~use_grouping) => Len(df.rows) = Len(DocLines(xml_content))

HasHeader(doc) == Kids(doc.root, "FatturaElettronicaHeader") # <<>>
HasBody(doc) == Kids(doc.root, "FatturaElettronicaBody") # <<>>
\* some FatturaElettronicaBody holds a DatiGenerali with a DatiGeneraliDocumento
HasGeneralData(doc) ==
    LET bodies == Kids(doc.root, "FatturaElettronicaBody")
    IN  \E b \in DOMAIN bodies :
            LET general == Kids(bodies[b], "DatiGenerali")
            IN  \E g \in DOMAIN general :
                    Kids(general[g], "DatiGeneraliDocumento") # <<>>
SectionAbsent(doc) == ~HasHeader(doc) \/ ~HasBody(doc) \/ ~HasGeneralData(doc)

\* extract_invoice_data has returned or raised
HeaderExtracted == pc \in {"lines", "loop", "returned", "raised"}

\* C10 as stated: header extraction raises exactly when
\* FatturaElettronicaHeader, FatturaElettronicaBody or DatiGeneraliDocumento
\* is absent from the document, and when it raises the conversion raises
\* and returns no table.
C10_HeaderAbort ==
    HeaderExtracted =>
        /\ invoice_data = None <=> SectionAbsent(xml_content)
        /\ invoice_data = None => (pc = "raised" /\ df = NoTable)

---------------------------------------------------------------------------
(* Claims about the page, checked under Spec *)

\* the most recent upload event carried bytes that the strict parse refuses
MalformedUpload ==
    /\ upload # None
    /\ upload.event.content # None
    /\ ~upload.event.content.wellformed

ControlsDisabled == ~controls.group_sw /\ ~controls.energy_sw /\ ~controls.run_btn

\* C11: when the strict parse of the uploaded bytes fails, handle_upload
\* returns failure, no content and 0 lines; process_file leaves app_state as
\* it was; the controls stay disabled until another upload, and those bytes
\* are never stored nor converted.
C11_MalformedUpload ==
    /\ [](MalformedUpload =>
            /\ RejectedAs("technical_error")
            /\ upload.returned.rows = 0
            /\ ControlsDisabled
            /\ pc = "idle" /\ pending = 0)
    /\ [](app_state.xml_content # Malformed /\ xml_content # Malformed)
    /\ [][\A e \in UploadEvents :
             (e.content = Malformed /\ ProcessFile(e)) => app_state' = app_state]_vars

\* bytes that do not parse were uploaded after a document had been stored:
\* the stored document is still there and the controls are disabled
C11_Witness ==
    /\ MalformedUpload
    /\ app_state.xml_content # None
    /\ ControlsDisabled

---------------------------------------------------------------------------
(* Claims about the functions called on their own, checked under SpecCalls *)

Called(fn) == fn_call # None /\ fn_call.fn = fn

Missing == [k |-> "missing"]
\* the value reached from data by the keys path[i..]; Missing when a key is
\* not there or the value on the way is not a mapping
RECURSIVE Reach(_, _, _)
Reach(data, path, i) ==
    IF i > Len(path)
    THEN data
    ELSE IF data.k = "dict" /\ path[i] \in DOMAIN data.d
         THEN Reach(data.d[path[i]], path, i + 1)
         ELSE Missing

\* C12 as stated: extract_nested_value never raises; it returns the string
\* form of the value the path reaches; when the path reaches nothing or
\* None, it returns the default the caller gave, whatever that is, and "**"
\* when the caller gave none.
C12_NestedValue ==
    Called("extract_nested_value") =>
        LET reached == Reach(fn_call.data, fn_call.path, 1)
        IN  /\ fn_ret # Raised
            /\ reached \notin {Missing, None} => fn_ret = Str(reached)
            /\ reached \in {Missing, None} =>
                   fn_ret = IF fn_call.default # None THEN fn_call.default ELSE S("**")

\* the texts that are decimal numbers, with their value in thousandths
Decimals ==
    {<<"0", 0>>, <<"0.125", 125>>, <<"0.375", 375>>, <<"2.00", 2000>>, <<"5.00", 5000>>,
     <<"12.50", 12500>>, <<"100.00", 100000>>}
\* the number a cell of a numeric column must hold for the text it was built from
Coerced(text) ==
    IF \E d \in Decimals : text = S(d[1])
    THEN Num((CHOOSE d \in Decimals : text = S(d[1]))[2])
    ELSE Num(0)

\* C13: create_dataframe never raises, and in every row of the table it
\* builds T_importo_doc, P_qta, P_przunit and P_prezzo_tot hold the number
\* their text reads as, and 0 when the text is not a number.
C13_NumericCoercion ==
    Called("create_dataframe") =>
        /\ fn_ret # Raised
        /\ \A i \in DOMAIN fn_ret.rows :
               /\ fn_ret.rows[i].T_importo_doc = Coerced(fn_call.invoice_data.doc_amount)
               /\ fn_ret.rows[i].P_qta = Coerced(fn_call.lines_data[i].quantity)
               /\ fn_ret.rows[i].P_przunit = Coerced(fn_call.lines_data[i].unit_price)
               /\ fn_ret.rows[i].P_prezzo_tot = Coerced(fn_call.lines_data[i].total_price)

\* a table with a row whose total price "abc" became 0 after a row whose
\* "12.50" became 12.5
C13_Witness ==
    /\ Called("create_dataframe")
    /\ Len(fn_ret.rows) = 2
    /\ fn_call.lines_data[1].total_price = S("12.50")
    /\ fn_ret.rows[1].P_prezzo_tot = Num(12500)
    /\ fn_call.lines_data[2].total_price = S("abc")
    /\ fn_ret.rows[2].P_prezzo_tot = Num(0)
    /\ fn_ret.rows[2].P_qta = Num(0)

\* the key tuple of a row, the fields named as in the claim
KeyTuple(row) ==
    <<row.T_filein, row.T_num_doc, row.T_data_doc, row.P_nrdisegno, row.P_commessa,
      row.P_nrddt, row.P_intento>>
\* the sum of P_prezzo_tot over the rows at the positions idxs
RECURSIVE TotalOver(_, _)
TotalOver(rows, idxs) ==
    IF idxs = {}
    THEN 0
    ELSE LET i == CHOOSE j \in idxs : TRUE
         IN  rows[i].P_prezzo_tot.v + TotalOver(rows, idxs \ {i})
\* amount is total rounded to two decimals (both in thousandths)
RoundedTo2(amount, total) ==
    /\ amount % 10 = 0
    /\ amount - total <= 5
    /\ total - amount <= 5

\* apply_grouping was handed a table with the columns create_dataframe builds
GroupedATable == Called("apply_grouping") /\ fn_call.df.columns = Columns

\* C14 as stated: for every non-empty table, apply_grouping returns exactly
\* one row for each distinct key tuple of the input, and its P_importo is
\* the sum, rounded to two decimals, of P_prezzo_tot over all input rows with
\* that key; no input row is left out.
C14_Grouping ==
    GroupedATable =>
        LET input == fn_call.df.rows
            keys == {KeyTuple(input[i]) : i \in DOMAIN input}
        IN  /\ fn_ret # Raised
            /\ Len(fn_ret.rows) = Cardinality(keys)
            /\ {KeyTuple(fn_ret.rows[g]) : g \in DOMAIN fn_ret.rows} = keys
            /\ \A g \in DOMAIN fn_ret.rows :
                   RoundedTo2(fn_ret.rows[g].P_importo.v,
                              TotalOver(input,
                                        {i \in DOMAIN input :
                                            KeyTuple(input[i]) = KeyTuple(fn_ret.rows[g])}))

\* apply_grouping was handed a table it had returned
RegroupedATable == Called("apply_grouping") /\ fn_call.df.columns = GroupedColumns

\* C15 as stated: apply_grouping applied to a table that is grouped already
\* returns that same table, rows and sums unchanged.
C15_Idempotent == RegroupedATable => fn_ret = fn_call.df

\* C16: create_dataframe returns the empty table for an empty line list;
\* otherwise the table has one row per line, in the order of the lines, and
\* row i carries the header values (file name, supplier VAT and name,
\* document number, date and amount) and the fields of line i.
C16_RowPerLine ==
    Called("create_dataframe") =>
        LET lines_data == fn_call.lines_data
            invoice == fn_call.invoice_data
        IN  IF lines_data = <<>>
            THEN fn_ret.rows = <<>> /\ fn_ret.columns = <<>>
            ELSE /\ Len(fn_ret.rows) = Len(lines_data)
                 /\ \A i \in DOMAIN lines_data :
                        LET row == fn_ret.rows[i]
                            line == lines_data[i]
                        IN  /\ row.T_filein = S(fn_call.filename)
                            /\ row.T_piva_mitt = invoice.supplier_vat
                            /\ row.T_ragsoc_mitt = invoice.supplier_name
                            /\ row.T_num_doc = invoice.doc_number
                            /\ row.T_data_doc = invoice.doc_date
                            /\ row.T_importo_doc = Coerced(invoice.doc_amount)
                            /\ row.P_nr_linea = line.line_number
                            /\ row.P_codart = line.article_code
                            /\ row.P_desc_linea = line.description
                            /\ row.P_qta = Coerced(line.quantity)
                            /\ row.P_um = line.unit
                            /\ row.P_przunit = Coerced(line.unit_price)
                            /\ row.P_prezzo_tot = Coerced(line.total_price)
                            /\ row.P_codiva = line.vat_code
                            /\ row.P_nrdisegno = line.drawing_number
                            /\ row.P_commessa = line.order_number
                            /\ row.P_nrddt = line.ddt_number
                            /\ row.P_intento = line.intent

\* a table of as many rows as the bound allows, built from lines that differ
C16_Witness ==
    /\ Called("create_dataframe")
    /\ Len(fn_call.lines_data) = MaxRows
    /\ fn_call.lines_data[1] # fn_call.lines_data[MaxRows]
    /\ Len(fn_ret.rows) = MaxRows
    /\ fn_ret.rows[1].P_nrdisegno = S("D100")
    /\ fn_ret.rows[MaxRows].P_nrdisegno = S("**")

---------------------------------------------------------------------------
(* Claims about the carry-forward state, checked under SpecConvert *)

\* the processed lines whose final value of the field is not the sentinel
NonSentinel(f) == {i \in 1..idx : result[i][f] # S("**")}

\* C17: during a parse, after each processed line and whatever
\* manage_energy is, each field of previous_values is the final value of
\* that field on the most recent processed line where it was not the
\* sentinel, and the sentinel when there is no such line (so a field that
\* has left the sentinel does not return to it within the parse).
C17_StateTracksLastValue ==
    InLoop =>
        /\ Len(result) = idx
        /\ \A f \in CarryFields :
               previous_values[f] =
                   IF NonSentinel(f) = {}
                   THEN S("**")
                   ELSE result[SetMax(NonSentinel(f))][f]

\* with manage_energy off, the line just processed left drawing_number at
\* the sentinel and the state still holds the value of an earlier line
C17_Witness ==
    /\ pc = "loop"
    /\ ~manage_energy
    /\ idx >= 2
    /\ result[idx].drawing_number = S("**")
    /\ previous_values.drawing_number = S("D100")

---------------------------------------------------------------------------
(* Claims about the RUN button and the controls, checked under Spec *)

\* C18 as stated: whatever uploads, resets and runs came before, one click
\* of RUN starts one conversion of the stored document and writes at most
\* one PROCESS record.
C18_OneRunPerClick == runs <= 1 /\ process_log <= 1

\* the most recent upload event passed validation and no reset came after it
ValidatedUpload == upload # None /\ upload.returned.success /\ clear_visible

\* C19: the RUN button and the two switches are enabled only if the most
\* recent upload passed validation and no reset came after it, and then
\* app_state holds the content, the file name and the hash of that upload;
\* after a rejected upload or a reset the controls are disabled; a step
\* that ends with a rejected upload as the most recent event, not yet reset,
\* leaves app_state as it was.
C19_ControlsFollowUpload ==
    /\ []((controls.run_btn \/ controls.group_sw \/ controls.energy_sw) =>
            /\ ValidatedUpload
            /\ app_state.xml_content = upload.event.content
            /\ app_state.xml_filename = S(upload.event.name.base)
            /\ app_state.file_hash = Sha256(upload.event.content))
    /\ []((upload # None /\ ~upload.returned.success) => ControlsDisabled)
    /\ [](~clear_visible => ControlsDisabled)
    /\ [][(upload' # None /\ ~upload'.returned.success /\ clear_visible') =>
              app_state' = app_state]_vars

\* a second validated upload has replaced the first: the controls are
\* enabled and app_state holds the document of the second
C19_Witness ==
    /\ controls.run_btn /\ controls.group_sw /\ controls.energy_sw
    /\ click_handlers >= 2
    /\ ValidatedUpload
    /\ app_state.xml_content = upload.event.content
    /\ app_state.dataframe # None

=============================================================================
